---- MODULE Spec2Model ----
(***************************************************************************)
(* Model of LakeShore.py: the buffered, time-windowed log writer           *)
(* (class monitor_file), the sampling thread (RunningThread) and the main  *)
(* thread that starts it, waits for the quit input and shuts down.         *)
(*                                                                         *)
(* Four specifications share the variables:                                *)
(*   Spec        the program, main thread and sampling thread interleaved; *)
(*   SpecFair    the program under fair scheduling of its threads;         *)
(*   SpecWriter  one monitor_file object driven by arbitrary calls of      *)
(*               writeheaderblock, writedata and flushdata;                *)
(*   SpecWriteLine  the same without flushdata, over a longer time.        *)
(*                                                                         *)
(* Time is the reading of monotonic(), an integer number of seconds; the   *)
(* wall clock (datetime.now(), time()) is taken to read the same.  Text is *)
(* a sequence of tokens; a file is the sequence of the chunks handed to    *)
(* fh.write.  File operations and LAKESHORE lifecycle calls are taken to   *)
(* return normally; LAKESHORE.read may raise, which ends the thread LOOP   *)
(* and leaves the main thread running.  A call on the writer is one step:  *)
(* the two threads share only Running, which is read at the loop test.     *)
(***************************************************************************)
EXTENDS Integers, Sequences, FiniteSets, TLC

VARIABLES
    now,        \* monotonic(), and the wall clock, in seconds
    fh,         \* the monitor_file object: headertext, data, time
    file,       \* content of the file fh.fp: the chunks written so far
    Running,    \* module global Running: "unbound", "True" or "False"
    cpc,        \* main thread: the statement it executes next
    spc,        \* sampling thread (LOOP): the statement it executes next
    wake,       \* sampling thread: earliest return time of the current sleep
    ts,         \* sampling thread: local ts
    w,          \* sampling thread: local w, the line to record
    lsh,        \* LAKESHORE: whether the GPIB handle is open
    exc,        \* exception raised by the last call made on the writer
    after,      \* history: what LOOP began after Running was set to False
    passed,     \* history: every line passed to writedata, in call order
    flushed,    \* history: how often data was written to the file, and when
                \* the last write ended (before any, when fh was made)
    forced,     \* history: whether flushdata was ever called
    hist,       \* history: the first calls made on the writer
    log         \* history: the statements the main thread has executed

vars == <<now, fh, file, Running, cpc, spc, wake, ts, w, lsh, exc, after,
          passed, flushed, forced, hist, log>>

-----------------------------------------------------------------------------
(* Program constants *)

SAVINGINTERVALS == 10
MESUREMENTINTERVAL == 2

(* Bounds of the model *)

MaxTime == 12       \* the clock of SpecWriter stops advancing here
MaxWait == 21       \* the clock of SpecWriteLine stops advancing here
MaxClock == 14      \* no cycle of the loop is begun in Spec from here on
MaxLive == 10       \* SpecFair starts this long before MaxClock
MaxLag == 1         \* longest time a write of the file takes
MaxLines == 3       \* writedata calls made by the writer's driver
MaxHeader == 1      \* header lines the driver may accumulate
MaxHist == 3        \* calls recorded in hist

-----------------------------------------------------------------------------
(* Text *)

\* a value of headertext: None, or the string holding the lines ls
None == [none |-> TRUE, lines |-> <<>>]
str(ls) == [none |-> FALSE, lines |-> ls]

\* str.lstrip(): the text without its leading whitespace
RECURSIVE lstrip(_)
lstrip(l) ==
    IF l # <<>> /\ Head(l) = " " THEN lstrip(Tail(l)) ELSE l

\* l[n:]
slice(l, n) == SubSeq(l, n + 1, Len(l))

\* b.split("\n")[1:-1]
inner(b) == SubSeq(b, 2, Len(b) - 1)

\* Python truth value of headertext: None and "" are false
truthy(h) == h # None /\ h # str(<<>>)

headerchunk(h) == [kind |-> "header", text |-> h]
datachunk(d) == [kind |-> "data", text |-> d]

RECURSIVE datachunks(_)
datachunks(ds) ==
    IF ds = <<>> THEN <<>> ELSE <<datachunk(Head(ds))>> \o datachunks(Tail(ds))

-----------------------------------------------------------------------------
(* class monitor_file, as functions of the object w_, the file f and time *)

\* __init__ at time t (the TEMPFILE branch clears the file)
monitor_file(t) ==
    [headertext |-> str(<<>>), data |-> <<>>, time |-> t + SAVINGINTERVALS]

\* faulty variant: the header text is kept after it is written
flushheader_keep(w_, f) ==
    [fh |-> w_, file |-> Append(f, headerchunk(w_.headertext))]

\* flushheader
flushheader(w_, f) ==
    [fh |-> [w_ EXCEPT !.headertext = None],
     file |-> Append(f, headerchunk(w_.headertext))]

\* writeheaderblock: the result, or the TypeError of None += str
headerlines(b) ==
    LET ls == inner(b)
        n == Len(ls[1]) - Len(lstrip(ls[1]))
    IN  [i \in 1..Len(ls) |-> <<"# ">> \o slice(ls[i], n)]

writeheaderblock(w_, b) ==
    IF inner(b) = <<>> THEN [fh |-> w_, exc |-> "none"]
    ELSE IF w_.headertext = None THEN [fh |-> w_, exc |-> "TypeError"]
    ELSE [fh |-> [w_ EXCEPT !.headertext = str(@.lines \o headerlines(b))],
          exc |-> "none"]

\* faulty variant: the timer is not reset after the write
savedata_noreset(w_, f, t, lag) ==
    IF w_.data = <<>> THEN [fh |-> w_, file |-> f, wrote |-> FALSE]
    ELSE IF t < w_.time THEN [fh |-> w_, file |-> f, wrote |-> FALSE]
    ELSE LET h == IF truthy(w_.headertext)
                  THEN [fh |-> [w_ EXCEPT !.headertext = None],
                        file |-> Append(f, headerchunk(w_.headertext))]
                  ELSE [fh |-> w_, file |-> f]
         IN  [fh |-> [h.fh EXCEPT !.data = <<>>],
              file |-> h.file \o datachunks(w_.data),
              wrote |-> TRUE]

\* faulty variant: the last buffered line is not written
savedata_partial(w_, f, t, lag) ==
    IF w_.data = <<>> THEN [fh |-> w_, file |-> f, wrote |-> FALSE]
    ELSE IF t < w_.time THEN [fh |-> w_, file |-> f, wrote |-> FALSE]
    ELSE LET h == IF truthy(w_.headertext)
                  THEN [fh |-> [w_ EXCEPT !.headertext = None],
                        file |-> Append(f, headerchunk(w_.headertext))]
                  ELSE [fh |-> w_, file |-> f]
         IN  [fh |-> [h.fh EXCEPT !.data = <<>>,
                                  !.time = t + lag + SAVINGINTERVALS],
              file |-> h.file
                          \o datachunks(SubSeq(w_.data, 1, Len(w_.data) - 1)),
              wrote |-> TRUE]

\* faulty variant: an empty buffer does not stop the write
savedata_noempty(w_, f, t, lag) ==
    IF t < w_.time THEN [fh |-> w_, file |-> f, wrote |-> FALSE]
    ELSE LET h == IF truthy(w_.headertext)
                  THEN [fh |-> [w_ EXCEPT !.headertext = None],
                        file |-> Append(f, headerchunk(w_.headertext))]
                  ELSE [fh |-> w_, file |-> f]
         IN  [fh |-> [h.fh EXCEPT !.data = <<>>,
                                  !.time = t + lag + SAVINGINTERVALS],
              file |-> h.file \o datachunks(w_.data),
              wrote |-> TRUE]

\* savedata called at time t, the write of the file taking lag
savedata(w_, f, t, lag) ==
    IF w_.data = <<>> THEN [fh |-> w_, file |-> f, wrote |-> FALSE]
    ELSE IF t < w_.time THEN [fh |-> w_, file |-> f, wrote |-> FALSE]
    ELSE LET h == IF truthy(w_.headertext) THEN flushheader(w_, f)
                  ELSE [fh |-> w_, file |-> f]
         IN  [fh |-> [h.fh EXCEPT !.data = <<>>,
                                  !.time = t + lag + SAVINGINTERVALS],
              file |-> h.file \o datachunks(w_.data),
              wrote |-> TRUE]

\* faulty variant: the buffer is replaced by the new line
writedata_replace(w_, f, datastr, t, lag) ==
    savedata([w_ EXCEPT !.data = <<datastr>>], f, t, lag)

\* faulty variant: the line is appended after the attempt to save
writedata_late(w_, f, datastr, t, lag) ==
    LET r == savedata(w_, f, t, lag)
    IN  [r EXCEPT !.fh.data = Append(@, datastr)]

\* writedata
writedata(w_, f, datastr, t, lag) ==
    savedata([w_ EXCEPT !.data = Append(@, datastr)], f, t, lag)

\* faulty variant: the timer is left alone
flushdata_notimer(w_, f, t, lag) ==
    savedata(w_, f, t, lag)

\* flushdata
flushdata(w_, f, t, lag) ==
    savedata([w_ EXCEPT !.time = t], f, t, lag)

-----------------------------------------------------------------------------
(* The effect of one call on the variables of the writer *)

\* hist after the call c: the calls so far, or Many once there are too many
Many == [many |-> TRUE, calls |-> <<>>]
calls(cs) == [many |-> FALSE, calls |-> cs]
note(c) ==
    IF hist # Many /\ Len(hist.calls) < MaxHist
    THEN calls(Append(hist.calls, c)) ELSE Many

Lags == 0..MaxLag

Apply(r, lag) ==
    /\ fh' = r.fh
    /\ file' = r.file
    /\ now' = IF r.wrote THEN now + lag ELSE now
    /\ flushed' = IF r.wrote THEN [n |-> flushed.n + 1, at |-> now + lag]
                  ELSE flushed

-----------------------------------------------------------------------------
(* SpecWriter: a monitor_file object and its callers *)

\* header blocks, split at the line ends: an empty one, and a line "a"
\* indented by one blank
Blocks == { << <<>>, <<>> >>, << <<>>, <<" ", "a">>, <<>> >> }
Lines == {"x", "y"}

NoneYet == [sleep |-> 0, read |-> 0, writedata |-> 0, flushdata |-> 0]

InitWriter ==
    /\ now = 0
    /\ fh = monitor_file(0)
    /\ file = <<>>
    /\ Running = "unbound"
    /\ cpc = "driver"
    /\ spc = "unstarted"
    /\ wake = 0
    /\ ts = 0
    /\ w = <<>>
    /\ lsh = FALSE
    /\ exc = "none"
    /\ after = NoneYet
    /\ passed = <<>>
    /\ flushed = [n |-> 0, at |-> 0]
    /\ forced = FALSE
    /\ hist = calls(<<>>)
    /\ log = <<>>

prog == <<Running, cpc, spc, wake, ts, w, lsh, after, log>>

Tick ==
    /\ now < MaxTime
    /\ now' = now + 1
    /\ UNCHANGED <<fh, file, Running, cpc, spc, wake, ts, w, lsh, exc,
                   after, passed, flushed, forced, hist, log>>

CallWriteHeader ==
    \E b \in Blocks :
        LET r == writeheaderblock(fh, b) IN
        /\ Len(r.fh.headertext.lines) <= MaxHeader
        /\ fh' = r.fh
        /\ exc' = r.exc
        /\ hist' = note([op |-> "writeheaderblock", arg |-> b])
        /\ UNCHANGED <<now, file, passed, flushed, forced>>
        /\ UNCHANGED prog

CallWriteData ==
    \E d \in Lines, lag \in Lags :
        /\ Len(passed) < MaxLines
        /\ Apply(writedata(fh, file, d, now, lag), lag)
        /\ passed' = Append(passed, d)
        /\ exc' = "none"
        /\ hist' = note([op |-> "writedata", arg |-> d])
        /\ UNCHANGED forced
        /\ UNCHANGED prog

CallFlushData ==
    \E lag \in Lags :
        /\ Apply(flushdata(fh, file, now, lag), lag)
        /\ forced' = TRUE
        /\ exc' = "none"
        /\ hist' = note([op |-> "flushdata", arg |-> <<>>])
        /\ UNCHANGED passed
        /\ UNCHANGED prog

NextWriter ==
    \/ Tick
    \/ CallWriteHeader
    \/ CallWriteData
    \/ CallFlushData

SpecWriter == InitWriter /\ [][NextWriter]_vars

\* the callers never call flushdata
Wait ==
    /\ now < MaxWait
    /\ now' = now + 1
    /\ UNCHANGED <<fh, file, Running, cpc, spc, wake, ts, w, lsh, exc,
                   after, passed, flushed, forced, hist, log>>

NextWriteLine ==
    \/ Wait
    \/ CallWriteHeader
    \/ CallWriteData

SpecWriteLine == InitWriter /\ [][NextWriteLine]_vars

-----------------------------------------------------------------------------
(* class LAKESHORE *)

\* what the instrument may answer to a query; Err: the transport raises
Err == "VisaIOError"
Responses == {"1", "x", Err}

\* float(r) and int(r): the value, or Err when they raise ValueError
float(r) == IF r = "1" THEN "1.0" ELSE Err
int(r) == IF r = "1" THEN "1" ELSE Err

\* the conversion read applies to the answer r to its i-th query
conv(i, r) == IF i = 4 THEN int(r) ELSE float(r)

\* the answers the instrument gives to the queries of one read: five, or
\* fewer when one makes read raise, no query being sent after that
Answers ==
    {q \in UNION {[1..n -> Responses] : n \in 1..5} :
        /\ \A i \in 1..(Len(q) - 1) : conv(i, q[i]) # Err
        /\ Len(q) < 5 => conv(Len(q), q[Len(q)]) = Err}

\* read, q[i] being the answer to its i-th query
read(q) ==
    LET v == [i \in 1..Len(q) |-> conv(i, q[i])]
    IN  IF v[Len(q)] = Err THEN [raises |-> TRUE]
        ELSE [raises |-> FALSE, T1R |-> v[1], T1T |-> v[2], TSP |-> v[3],
              HTR |-> v[4], HTV |-> v[5]]

-----------------------------------------------------------------------------
(* RunningThread, the target of the thread LOOP *)

\* f"{x:8.3e}"
fmt_e(x) == IF x = "1.0" THEN "1.000e+00" ELSE x

\* the line w built from ts, the sample and s = time()
record(t, s, m) ==
    <<t, s, fmt_e(m.T1R), fmt_e(m.T1T), fmt_e(m.TSP), m.HTR, fmt_e(m.HTV)>>

stopped == Running = "False"
count(what) == IF stopped THEN [after EXCEPT ![what] = @ + 1] ELSE after

writer == <<fh, file, passed, flushed, forced, hist, exc>>

\* faulty variant: while True:
s_while_true ==
    /\ spc = "while"
    /\ now < MaxClock
    /\ spc' = "sleep"
    /\ UNCHANGED <<now, Running, cpc, wake, ts, w, lsh, log, after>>
    /\ UNCHANGED writer

\* faulty variant: while not Running:
s_while_not ==
    /\ spc = "while"
    /\ (Running = "False") => (now < MaxClock)
    /\ spc' = IF Running = "False" THEN "sleep"
              ELSE IF Running = "True" THEN "flushdata"
              ELSE "dead"
    /\ UNCHANGED <<now, Running, cpc, wake, ts, w, lsh, log, after>>
    /\ UNCHANGED writer

\* while Running: (the model begins no cycle from MaxClock on)
s_while ==
    /\ spc = "while"
    /\ (Running = "True") => (now < MaxClock)
    /\ spc' = IF Running = "True" THEN "sleep"
              ELSE IF Running = "False" THEN "flushdata"
              ELSE "dead"
    /\ UNCHANGED <<now, Running, cpc, wake, ts, w, lsh, log, after>>
    /\ UNCHANGED writer

\* sleep(setup['MESUREMENTINTERVAL']) is entered
s_sleep ==
    /\ spc = "sleep"
    /\ spc' = "sleeping"
    /\ wake' = now + MESUREMENTINTERVAL
    /\ after' = count("sleep")
    /\ UNCHANGED <<now, Running, cpc, ts, w, lsh, log>>
    /\ UNCHANGED writer

\* sleep returns; ts = datetime.now()
s_wake ==
    /\ spc = "sleeping"
    /\ now >= wake
    /\ spc' = "read"
    /\ ts' = now
    /\ UNCHANGED <<now, Running, cpc, wake, w, lsh, log, after>>
    /\ UNCHANGED writer

\* LS.read(), s = time() and the formatting of w; or read raises
s_read ==
    /\ spc = "read"
    /\ \E q \in Answers :
           LET m == read(q) IN
           IF m.raises THEN spc' = "dead" /\ w' = w
           ELSE spc' = "writedata" /\ w' = record(ts, now, m)
    /\ after' = count("read")
    /\ UNCHANGED <<now, Running, cpc, wake, ts, lsh, log>>
    /\ UNCHANGED writer

\* fh.writedata(w)
s_writedata ==
    /\ spc = "writedata"
    /\ \E lag \in Lags : Apply(writedata(fh, file, w, now, lag), lag)
    /\ passed' = Append(passed, w)
    /\ spc' = "while"
    /\ after' = count("writedata")
    /\ UNCHANGED <<Running, cpc, wake, ts, w, lsh, log, forced, hist, exc>>

\* faulty variant: the thread ends without fh.flushdata()
s_flushdata_skip ==
    /\ spc = "flushdata"
    /\ spc' = "done"
    /\ UNCHANGED <<now, Running, cpc, wake, ts, w, lsh, log, after>>
    /\ UNCHANGED writer

\* fh.flushdata(), then the thread ends
s_flushdata ==
    /\ spc = "flushdata"
    /\ \E lag \in Lags : Apply(flushdata(fh, file, now, lag), lag)
    /\ forced' = TRUE
    /\ spc' = "done"
    /\ after' = count("flushdata")
    /\ UNCHANGED <<Running, cpc, wake, ts, w, lsh, log, passed, hist, exc>>

-----------------------------------------------------------------------------
(* The main thread, from the header block on *)

HeaderBlock ==
    << <<>>,
       <<"file    : d.dat">>,
       <<"content : \"LakeShore370\" raw data">>,
       <<"created : ", "created">>,
       <<"author  : Roch Schanen LakeShore.py V0.00">>,
       <<"Heater Resistance : 194.0 [Ohms]">>,
       <<"column 01 : time stamp [HH:MM:SS.F]">>,
       <<"column 02 : time in seconds [s]">>,
       <<"column 03 : Thermometer 1 Resistance [Ohms]">>,
       <<"column 04 : Thermometer 1 Temperature [K] ">>,
       <<"column 05 : Temperature Set-point [K]">>,
       <<"column 06 : Heater Range [index] ">>,
       <<"column 07 : Heater Value [W]">>,
       <<>> >>

\* LS = LAKESHORE() and fh = monitor_file(...) have run
Init ==
    /\ now = 0
    /\ fh = monitor_file(0)
    /\ file = <<>>
    /\ Running = "unbound"
    /\ cpc = "writeheaderblock"
    /\ spc = "unstarted"
    /\ wake = 0
    /\ ts = 0
    /\ w = <<>>
    /\ lsh = FALSE
    /\ exc = "none"
    /\ after = NoneYet
    /\ passed = <<>>
    /\ flushed = [n |-> 0, at |-> 0]
    /\ forced = FALSE
    /\ hist = calls(<<>>)
    /\ log = <<>>

\* Time passes while a thread is blocked in a call that takes time: the
\* opening of the instrument, sleep, the queries of read (the writes of the
\* file take their own time, see Apply).  Other statements take none.
\* A sleep that was entered can always run to its end.
elapse ==
    /\ \/ now < MaxClock /\ (cpc = "Open" \/ spc \in {"sleeping", "read"})
       \/ spc = "sleeping" /\ now < wake
    /\ now' = now + 1
    /\ UNCHANGED <<fh, file, Running, cpc, spc, wake, ts, w, lsh, exc,
                   after, passed, flushed, forced, hist, log>>

\* what a statement of the main thread that only passes control leaves alone
rest == <<now, Running, spc, wake, ts, w, lsh, after, writer>>

\* fh.writeheaderblock(...)
c_writeheaderblock ==
    /\ cpc = "writeheaderblock"
    /\ LET r == writeheaderblock(fh, HeaderBlock) IN
           /\ fh' = r.fh
           /\ exc' = r.exc
           /\ cpc' = IF r.exc = "none" THEN "Open" ELSE "dead"
    /\ log' = Append(log, "writeheaderblock")
    /\ UNCHANGED <<now, file, Running, spc, wake, ts, w, lsh, after,
                   passed, flushed, forced, hist>>

\* LS.Open()
c_Open ==
    /\ cpc = "Open"
    /\ cpc' = "Configure"
    /\ lsh' = TRUE
    /\ log' = Append(log, "Open")
    /\ UNCHANGED <<now, Running, spc, wake, ts, w, after>>
    /\ UNCHANGED writer

\* LS.Configure()
c_Configure ==
    /\ cpc = "Configure"
    /\ cpc' = "Start"
    /\ log' = Append(log, "Configure")
    /\ UNCHANGED rest

\* LS.Start()
c_Start ==
    /\ cpc = "Start"
    /\ cpc' = "Thread"
    /\ log' = Append(log, "Start")
    /\ UNCHANGED rest

\* faulty variant: the thread is started as soon as it is made, before
\* Running is bound
c_Thread_started ==
    /\ cpc = "Thread"
    /\ cpc' = "Running"
    /\ spc' = "while"
    /\ log' = Append(log, "Thread")
    /\ UNCHANGED <<now, Running, wake, ts, w, lsh, after>>
    /\ UNCHANGED writer

\* LOOP = Thread(target=RunningThread)
c_Thread ==
    /\ cpc = "Thread"
    /\ cpc' = "Running"
    /\ log' = Append(log, "Thread")
    /\ UNCHANGED rest

\* Running = True
c_Running ==
    /\ cpc = "Running"
    /\ cpc' = "start"
    /\ Running' = "True"
    /\ log' = Append(log, "Running = True")
    /\ UNCHANGED <<now, spc, wake, ts, w, lsh, after>>
    /\ UNCHANGED writer

\* LOOP.start()
c_start ==
    /\ cpc = "start"
    /\ cpc' = "input"
    /\ spc' = "while"
    /\ log' = Append(log, "start")
    /\ UNCHANGED <<now, Running, wake, ts, w, lsh, after>>
    /\ UNCHANGED writer

\* i = input() returns: the user pressed enter
c_input ==
    /\ cpc = "input"
    /\ cpc' = "interrupt"
    /\ log' = Append(log, "input")
    /\ UNCHANGED rest

\* Running = False
c_interrupt ==
    /\ cpc = "interrupt"
    /\ cpc' = "join"
    /\ Running' = "False"
    /\ log' = Append(log, "Running = False")
    /\ UNCHANGED <<now, spc, wake, ts, w, lsh, after>>
    /\ UNCHANGED writer

\* whether the thread LOOP has ended, by return or by an exception
ended == spc \in {"done", "dead"}

\* faulty variant: join does not wait
joined_nowait == TRUE

\* LOOP.join() returns
joined == ended

c_join ==
    /\ cpc = "join"
    /\ joined
    /\ cpc' = "Stop"
    /\ log' = Append(log, "join")
    /\ UNCHANGED rest

\* LS.Stop()
c_Stop ==
    /\ cpc = "Stop"
    /\ cpc' = "Close"
    /\ log' = Append(log, "Stop")
    /\ UNCHANGED rest

\* LS.Close()
c_Close ==
    /\ cpc = "Close"
    /\ cpc' = "flushdata"
    /\ log' = Append(log, "Close")
    /\ UNCHANGED rest

\* faulty variant: the main thread's last flushdata is left out
c_flushdata_skip ==
    /\ cpc = "flushdata"
    /\ cpc' = "exit"
    /\ log' = Append(log, "flushdata")
    /\ UNCHANGED rest

\* fh.flushdata()
c_flushdata ==
    /\ cpc = "flushdata"
    /\ \E lag \in Lags : Apply(flushdata(fh, file, now, lag), lag)
    /\ forced' = TRUE
    /\ cpc' = "exit"
    /\ log' = Append(log, "flushdata")
    /\ UNCHANGED <<Running, spc, wake, ts, w, lsh, after, passed, hist, exc>>

\* exit()
c_exit ==
    /\ cpc = "exit"
    /\ cpc' = "exited"
    /\ log' = Append(log, "exit")
    /\ UNCHANGED rest

Next ==
    \/ elapse
    \/ c_writeheaderblock
    \/ c_Open
    \/ c_Configure
    \/ c_Start
    \/ c_Thread
    \/ c_Running
    \/ c_start
    \/ c_input
    \/ c_interrupt
    \/ c_join
    \/ c_Stop
    \/ c_Close
    \/ c_flushdata
    \/ c_exit
    \/ s_while
    \/ s_sleep
    \/ s_wake
    \/ s_read
    \/ s_writedata
    \/ s_flushdata

Spec == Init /\ [][Next]_vars

\* The two threads are scheduled by the interpreter, which lets each of
\* them run again and again, and the clock goes on; only input() waits for
\* the user, for as long as the user likes.
RunningThread ==
    s_while \/ s_sleep \/ s_wake \/ s_read \/ s_writedata \/ s_flushdata

shutdown ==
    c_interrupt \/ c_join \/ c_Stop \/ c_Close \/ c_flushdata \/ c_exit

\* monotonic() has no fixed origin: the program may as well be started at
\* a later reading of the clock
InitFair ==
    /\ now = MaxClock - MaxLive
    /\ fh = monitor_file(MaxClock - MaxLive)
    /\ file = <<>>
    /\ Running = "unbound"
    /\ cpc = "writeheaderblock"
    /\ spc = "unstarted"
    /\ wake = 0
    /\ ts = 0
    /\ w = <<>>
    /\ lsh = FALSE
    /\ exc = "none"
    /\ after = NoneYet
    /\ passed = <<>>
    /\ flushed = [n |-> 0, at |-> 0]
    /\ forced = FALSE
    /\ hist = calls(<<>>)
    /\ log = <<>>

SpecFair ==
    /\ InitFair
    /\ [][Next]_vars
    /\ WF_vars(RunningThread)
    /\ WF_vars(shutdown)
    /\ WF_vars(elapse)

-----------------------------------------------------------------------------
(* What the file holds *)

isdata(c) == c.kind = "data"
isheader(c) == c.kind = "header"

\* the data lines of the file f, in file order
DataOf(f) == LET ds == SelectSeq(f, isdata) IN [i \in 1..Len(ds) |-> ds[i].text]

\* how often header text was written to the file f
HeaderCount(f) == Len(SelectSeq(f, isheader))

\* what a write of the file emits ahead of the data, given the writer w_
hdr(w_) == IF truthy(w_.headertext) THEN <<headerchunk(w_.headertext)>> ELSE <<>>

Last(q) == q[Len(q)]

-----------------------------------------------------------------------------
(* The writer: no line lost, duplicated or reordered *)

NoLineLost == DataOf(file) \o fh.data = passed

\* C2: in every state the data lines of the file followed by the buffered
\* lines are the lines passed to writedata so far, in call order; and a
\* flushdata call leaves every line passed so far in the file.
C2_Theorem ==
    /\ []NoLineLost
    /\ [][CallFlushData => fh'.data = <<>> /\ DataOf(file') = passed']_vars

\* a line is in the file while later lines wait in the buffer
C2_Witness ==
    /\ Len(DataOf(file)) >= 1
    /\ Len(fh.data) >= 2
    /\ fh.data[1] # fh.data[2]

-----------------------------------------------------------------------------
(* The writer: the flush window *)

\* C3: with writedata calls only, data is written to the file no earlier
\* than SAVINGINTERVALS after the previous write ended, and the first time
\* no earlier than SAVINGINTERVALS after the writer was made.
C3_Theorem ==
    [][file' # file => now >= flushed.at + SAVINGINTERVALS]_vars

\* data was written twice, lines waiting both times
C3_Witness ==
    /\ flushed.n = 2
    /\ Len(DataOf(file)) = 3
    /\ ~forced

-----------------------------------------------------------------------------
(* The writer: what a write of the file emits *)

\* the buffer as savedata finds it in this step: writedata appends first
pending == IF passed' # passed THEN Append(fh.data, Last(passed')) ELSE fh.data

\* C4: whenever the file changes, the header text if it is pending and then
\* every buffered line, in insertion order, is appended to it and the buffer
\* is left empty.
C4_Theorem ==
    [][file' # file =>
          /\ file' = file \o hdr(fh) \o datachunks(pending)
          /\ fh'.data = <<>>]_vars

\* one write of the file emitted several different lines
C4_Witness ==
    /\ flushed.n = 1
    /\ Len(DataOf(file)) >= 2
    /\ DataOf(file)[1] # DataOf(file)[2]
    /\ fh.data = <<>>

\* C5: the header text is in the file at most once, however often data was
\* written to it.
C5_Theorem == HeaderCount(file) <= 1

\* the header is in the file and data was written after that
C5_Witness ==
    /\ HeaderCount(file) = 1
    /\ flushed.n >= 3
    /\ exc = "none"

\* the calls so far: a header block b, writedata(d), flushdata()
ScenarioB(b, d) ==
    hist = calls(<<[op |-> "writeheaderblock", arg |-> b],
                   [op |-> "writedata", arg |-> d],
                   [op |-> "flushdata", arg |-> <<>>]>>)

\* C6: a flushdata call made with lines in the buffer appends them all to
\* the file and empties the buffer, whatever the time and the deadline; and
\* a header block, one writedata and one flushdata on a new writer leave the
\* header and that one line in the file.
C6_Theorem ==
    /\ [][CallFlushData /\ fh.data # <<>> =>
             /\ file' = file \o hdr(fh) \o datachunks(fh.data)
             /\ fh'.data = <<>>]_vars
    /\ [](\A b \in Blocks, d \in Lines :
             ScenarioB(b, d) /\ inner(b) # <<>> =>
                 file = <<headerchunk(str(headerlines(b))), datachunk(d)>>)

\* scenario B, long before the deadline
C6_Witness ==
    /\ \E b \in Blocks, d \in Lines : ScenarioB(b, d) /\ inner(b) # <<>>
    /\ now < SAVINGINTERVALS
    /\ Len(file) = 2

\* C7: a flushdata call made with an empty buffer leaves the file, the
\* buffer and the header text as they are; every flushdata call leaves the
\* buffer empty, so a second one changes neither file nor buffer.
C7_Theorem ==
    /\ [][CallFlushData /\ fh.data = <<>> =>
             /\ file' = file
             /\ fh'.data = fh.data
             /\ fh'.headertext = fh.headertext]_vars
    /\ [][CallFlushData => fh'.data = <<>>]_vars

\* flushdata was called with a header pending and nothing buffered
C7_Witness ==
    /\ \E b \in Blocks :
           hist = calls(<<[op |-> "writeheaderblock", arg |-> b],
                          [op |-> "flushdata", arg |-> <<>>]>>)
    /\ truthy(fh.headertext)
    /\ file = <<>>

-----------------------------------------------------------------------------
(* The writer: scenario A *)

\* k lines were passed, none written yet, the header is pending and the
\* deadline has come
WindowElapsed ==
    /\ file = <<>>
    /\ fh.data # <<>>
    /\ fh.data = passed
    /\ truthy(fh.headertext)
    /\ now >= fh.time

\* C8 as stated: writedata calls before the deadline write nothing, and
\* the next call after it, writedata or flushdata, emits the header and
\* exactly the k lines buffered before.
C8_Original ==
    /\ [][CallWriteData /\ now < fh.time => file' = file]_vars
    /\ [][WindowElapsed /\ (CallWriteData \/ CallFlushData) =>
             file' = <<headerchunk(fh.headertext)>> \o datachunks(fh.data)]_vars

\* C8 amended: writedata calls before the deadline write nothing; after it
\* a flushdata call emits the header and exactly the k lines buffered
\* before, a writedata call the header, those k lines and then its own line.
C8_Theorem ==
    /\ [][CallWriteData /\ now < fh.time => file' = file]_vars
    /\ [][WindowElapsed /\ passed' = passed /\ CallFlushData =>
             file' = <<headerchunk(fh.headertext)>> \o datachunks(fh.data)]_vars
    /\ [][WindowElapsed /\ passed' # passed /\ CallWriteData =>
             file' = <<headerchunk(fh.headertext)>>
                         \o datachunks(Append(fh.data, Last(passed')))]_vars

\* after the window a writedata call emitted the header and three lines,
\* two of them buffered before
C8_Witness ==
    /\ ~forced
    /\ flushed.n = 1
    /\ flushed.at >= SAVINGINTERVALS
    /\ Len(file) = 4
    /\ Len(passed) = 3

-----------------------------------------------------------------------------
(* The program: a run from start to exit *)

\* the main thread is past LOOP.join()
PastJoin == cpc \in {"Stop", "Close", "flushdata", "exit", "exited"}

\* the header text the main thread hands to the writer
Header == str(headerlines(HeaderBlock))

\* the heater range field of a recorded line
HTRof(l) == l[6]

\* C1 as stated: once the main thread is past join after N iterations
\* without a failed read, the thread has ended, the buffer is empty and the
\* file holds the header followed by the N lines in iteration order.
C1_Original ==
    PastJoin /\ spc # "dead" =>
        /\ spc = "done"
        /\ fh.data = <<>>
        /\ file = <<headerchunk(Header)>> \o datachunks(passed)

\* C1 amended: the same for N >= 1; for N = 0 the file is empty, the header
\* is not written.  Every line records the heater range the device gave.
C1_Theorem ==
    PastJoin /\ spc # "dead" =>
        /\ spc = "done"
        /\ fh.data = <<>>
        /\ file = IF passed = <<>> THEN <<>>
                  ELSE <<headerchunk(Header)>> \o datachunks(passed)
        /\ \A i \in 1..Len(DataOf(file)) : HTRof(DataOf(file)[i]) = "1"

\* three iterations, then the stop: the header and three lines
C1_Witness ==
    /\ cpc = "Stop"
    /\ spc = "done"
    /\ Len(passed) = 3
    /\ Len(file) = 4

-----------------------------------------------------------------------------
(* The program: the stop request *)

incycle == spc \in {"sleep", "sleeping", "read", "writedata"}

AtMostOneCycle ==
    stopped =>
        /\ after.sleep <= 1 /\ after.read <= 1 /\ after.writedata <= 1
        /\ after.writedata = 1 => spc \in {"while", "flushdata", "done"}
        /\ incycle => after.writedata = 0

\* C9: after Running is set to False the thread enters at most one sleep,
\* makes at most one read and records at most one line, all of the cycle
\* it was in, and after that line it only leaves the loop; the loop is left
\* from its top only.
C9_Theorem ==
    /\ []AtMostOneCycle
    /\ [][spc' = "flushdata" /\ spc # "flushdata" => spc = "while"]_vars
    /\ [][stopped /\ spc = "while" /\ spc' # spc => spc' = "flushdata"]_vars

\* a whole cycle, sleep included, ran after the stop request
C9_Witness ==
    /\ stopped
    /\ after = [sleep |-> 1, read |-> 1, writedata |-> 1, flushdata |-> 1]
    /\ spc = "done"

-----------------------------------------------------------------------------
(* The program: who uses the writer *)

\* C10: once the thread LOOP is started the main thread calls the writer
\* only after join, when LOOP has ended, and LOOP calls the writer only
\* while the main thread is between start and the return of join.
C10_Theorem ==
    /\ [](PastJoin => ended)
    /\ [][(c_writeheaderblock \/ c_flushdata) /\ spc # "unstarted" =>
             ended]_vars
    /\ [][s_writedata \/ s_flushdata =>
             cpc \in {"input", "interrupt", "join"}]_vars

\* the main thread made its flushdata call after LOOP had written and ended
C10_Witness ==
    /\ cpc = "exit"
    /\ spc = "done"
    /\ passed # <<>>

-----------------------------------------------------------------------------
(* The end of the sampling thread *)

\* C11 as stated: whenever the sampling thread has ended it has called
\* flushdata exactly once.
C11_Original ==
    ended => after.flushdata = 1

\* C11: the thread never calls flushdata more than once; it has called it
\* exactly once when it ended by leaving the loop, and not before; when
\* LS.read() raised, the thread ended having called flushdata zero times.
C11_Theorem ==
    /\ after.flushdata \in {0, 1}
    /\ (spc = "done") <=> (after.flushdata = 1)
    /\ (spc = "dead") => (after.flushdata = 0)

C11_Witness ==
    /\ spc = "dead"
    /\ Running = "False"
    /\ after.flushdata = 0
    /\ Len(passed) = 1

-----------------------------------------------------------------------------
(* A failure of LS.read() *)

\* C12 as stated: a failure of LS.read() in the loop ends the whole process,
\* so the main thread is never found waiting at input() (or past it, going
\* through the shutdown) once the sampling thread has died of the failure.
C12_Claim ==
    (spc = "dead") => (cpc \notin {"input", "interrupt", "join", "Stop",
                                  "Close", "flushdata", "exit"})

\* C13 as stated: the flushdata call the main thread makes after join finds
\* the buffer empty and changes nothing in the file.
C13_Claim ==
    [][c_flushdata => (fh.data = <<>> /\ file' = file)]_vars

-----------------------------------------------------------------------------
(* The order of the start-up *)

\* the statements of the start-up in the order the main thread makes them
Startup ==
    <<"writeheaderblock", "Open", "Configure", "Start", "Thread",
      "Running = True", "start">>

before(a, b) ==
    \A j \in 1..Len(log) : log[j] = b => \E i \in 1..(j - 1) : log[i] = a

-----------------------------------------------------------------------------
(* The life of Running *)

times(a) == Cardinality({i \in 1..Len(log) : log[i] = a})

\* the first test of the loop: no sleep was entered yet
firsttest == s_while /\ wake = 0

\* C15 as stated, its first part: the first test of the loop finds Running
\* True.
C15_Original ==
    [][firsttest => (Running = "True")]_vars

\* C15: Running is bound before the thread is started, so every test of
\* the loop, the first included, finds it True or False, and False only
\* when the main thread has already had the quit input; it is set to False
\* once, by the main thread after input() returned, and is never True
\* again; the thread is past its loop only when Running is False.
C15_Theorem ==
    /\ []((spc # "unstarted") => (Running \in {"True", "False"}))
    /\ []((Running = "False") <=> (times("Running = False") = 1))
    /\ [](times("Running = False") <= 1)
    /\ [][(Running' # Running) => (c_Running \/ c_interrupt)]_vars
    /\ [][(Running' = "False" /\ Running # "False")
              => (c_interrupt /\ Last(log) = "input")]_vars
    /\ [][(Running = "False") => (Running' = "False")]_vars
    /\ []((spc \in {"flushdata", "done"}) => (Running = "False"))

C15_Witness ==
    /\ spc = "done"
    /\ cpc = "join"
    /\ Running = "False"
    /\ Len(passed) = 2

-----------------------------------------------------------------------------
(* The header once it was written *)

\* C16 as stated: writeheaderblock on a writer whose header was written to
\* the file returns normally and leaves the writer as it was.
C16_Claim ==
    [][(CallWriteHeader /\ fh.headertext = None)
           => (exc' = "none" /\ fh' = fh)]_vars

\* C17 as stated: no header text is in the file after a data line, and
\* while header text is pending in the writer the file holds no data line.
C17_Claim ==
    /\ \A i, j \in 1..Len(file) :
           (i < j /\ isdata(file[i])) => ~isheader(file[j])
    /\ truthy(fh.headertext) => DataOf(file) = <<>>

-----------------------------------------------------------------------------
(* The shutdown *)

\* the statements of the shutdown in the order the main thread makes them
Shutdown ==
    <<"Running = False", "join", "Stop", "Close", "flushdata", "exit">>

\* the statements made since input() returned
sinceinput == SubSeq(log, Len(Startup) + 2, Len(log))

\* C18: once input() has returned, the sampling thread ends, join returns
\* and the process exits, having made join, LS.Stop, LS.Close and the last
\* flushdata in that order; so too when the thread had died of a failed
\* read before.
C18_Theorem ==
    /\ (cpc = "interrupt") ~> (cpc = "exited")
    /\ [](PastJoin => ended)
    /\ [](\A i \in 1..Len(sinceinput) : sinceinput[i] = Shutdown[i])
    /\ []((cpc = "exited") => (sinceinput = Shutdown /\ ended))

C18_Witness ==
    /\ cpc = "exited"
    /\ spc = "dead"
    /\ sinceinput = Shutdown

-----------------------------------------------------------------------------
(* What a failed read leaves behind *)

\* C19: a read that raises appends no line and writes nothing; and when
\* the main thread is through its shutdown after the thread died of it,
\* every line passed to writedata before is in the file, whole and in
\* order, though the thread made no flushdata call.
C19_Theorem ==
    /\ [][(s_read /\ spc' = "dead")
              => (passed' = passed /\ fh' = fh /\ file' = file)]_vars
    /\ []((spc = "dead" /\ cpc \in {"exit", "exited"})
              => /\ fh.data = <<>>
                 /\ DataOf(file) = passed
                 /\ after.flushdata = 0)

C19_Witness ==
    /\ spc = "dead"
    /\ cpc = "exited"
    /\ after.flushdata = 0
    /\ flushed.n = 1
    /\ flushed.at < SAVINGINTERVALS
    /\ Len(passed) = 2
    /\ DataOf(file) = passed

-----------------------------------------------------------------------------
(* flushdata and the time of the next save *)

\* a write of the file was made in this step
saved == flushed'.n = flushed.n + 1

\* C20: flushdata called with nothing buffered writes nothing but sets the
\* time of the next save to the present, so that a writedata called then
\* saves at once, however short the time since the last save; apart from
\* that the time of the next save changes only when a save is made, which
\* sets it SAVINGINTERVALS after the end of the write.
C20_Theorem ==
    /\ [][(CallFlushData /\ fh.data = <<>>)
              => (fh'.time = now /\ file' = file /\ ~saved)]_vars
    /\ [][(CallWriteData /\ fh.time <= now)
              => (saved /\ fh'.data = <<>> /\ Last(file').text = Last(passed'))]_vars
    /\ [][(fh'.time # fh.time)
              => \/ saved /\ fh'.time = now' + SAVINGINTERVALS
                 \/ CallFlushData /\ fh.data = <<>> /\ fh'.time = now]_vars

\* one save was made, by flushdata; a second flushdata, with nothing
\* buffered, has then moved the time of the next save from
\* SAVINGINTERVALS after that save to the present
C20_Witness ==
    /\ hist = calls(<<[op |-> "writedata", arg |-> "x"],
                      [op |-> "flushdata", arg |-> <<>>],
                      [op |-> "flushdata", arg |-> <<>>]>>)
    /\ flushed.n = 1
    /\ fh.data = <<>>
    /\ fh.time = now
    /\ now < flushed.at + SAVINGINTERVALS
====
